---------------------------- MODULE Spec2Model ----------------------------
(***************************************************************************)
(* Model of the concurrent Transformer of f0rmiga/datanalgo                *)
(* (package concurrent): a pipeline of worker pools connected by Go        *)
(* channels, with a blocking collector for slices and a streaming          *)
(* collector for channels.                                                 *)
(*                                                                         *)
(* One behaviour is one call of one of the four methods of the             *)
(* transformer.  The goroutines of the call are the feeder, the workers    *)
(* of every stage, one barrier goroutine per stage, the streaming          *)
(* collector, and the caller; for the channel methods the environment is   *)
(* a producer that writes the input channel and a consumer that reads      *)
(* the two returned channels.                                              *)
(*                                                                         *)
(* The workers of one stage run the same code over the same two channels,  *)
(* so a stage is kept as the number of workers waiting in the range loop,  *)
(* the bag of envelopes held by workers that are about to send, and the    *)
(* number of workers that have returned.                                   *)
(*                                                                         *)
(* The module also holds the SinglyLinkedList of package lists: the head   *)
(* pointer, the size field and the nodes, with one action per method.      *)
(***************************************************************************)
EXTENDS Integers, Sequences, FiniteSets, Bags, TLC

\* ------------------------------------------------------------------ bounds
MaxItems == 2
MaxWorkers == 2
MaxStages == 2
\* The call as a whole: items, stages and workers together.
MaxTotal == 6

\* ------------------------------------------------------------- parameters
Modes == {"Transform", "TransformWithError",
          "TransformChannels", "TransformChannelsWithError"}

Bounded(m) == m \in {"Transform", "TransformWithError"}

WithError(m) == m \in {"TransformWithError", "TransformChannelsWithError"}

\* The actions a caller can pass.  A TransformAction cannot fail; a
\* TransformActionWithError can.
ActionsNoError == {"double", "inc"}

ActionsWithError == {"inc", "failEven"}

\* The values an input item can have: an even and an odd one.
ItemValues == 1..2

SeqsUpTo(S, n) == UNION {[1..k -> S] : k \in 0..n}

VARIABLES
    mode,             \* the method called
    items,            \* the input: the slice, or what the producer sends
    actions,          \* the actions of the call, in order
    workers,          \* transformer.workers
    pc,               \* the calling goroutine
    stage,            \* process: the number of stages built so far
    chBuf, chCap, chClosed,  \* channel 0 is itemsCh, channel k is channels[k-1]
    fpc, fIdx, fHold, \* the feeder goroutine
    wIdle, wHold, wDone,     \* the worker pool of every stage
    transformedItems, \* the slice the blocking collector fills
    ret,              \* what Transform / TransformWithError returned
    inBuf, inCap, inClosed, pIdx,   \* the input channel and its producer
    outBuf, outCap, outClosed,      \* the returned output channel
    errBuf, errClosed,              \* the returned error channel
    cpc, cHold,       \* the streaming collector goroutine
    outputs, outputErrors,   \* what the consumer has received
    closes            \* history: who has called close on which channel

params == <<mode, items, actions, workers>>
chans == <<chBuf, chCap, chClosed>>
feeder == <<fpc, fIdx, fHold>>
pool == <<wIdle, wHold, wDone>>
input == <<inBuf, inCap, inClosed, pIdx>>
result == <<transformedItems, ret>>
outs == <<outBuf, outCap, outClosed, errBuf, errClosed>>
collector == <<cpc, cHold>>
consumer == <<outputs, outputErrors>>

\* The state of one call of the transformer.
transform == <<params, pc, stage, chans, feeder, pool, result, input, outs,
               collector, consumer, closes>>

N == Len(items)
K == Len(actions)

\* ---------------------------------------------------------------- values
\* error(nil)
NoErr == [stage |-> 0, arg |-> 0, idx |-> 0]

\* The error a failing action creates: errors.New gives a new error for every
\* call, so it is identified by the stage, the argument and the envelope.
NewErr(k, x, i) == [stage |-> k, arg |-> x, idx |-> i]

\* The index of an envelope type that has no Index field.
NoIndex == 0 - 1

\* action(x): the output and whether the error is non-nil.
Act(a, x) ==
    CASE a = "double" -> [out |-> 2 * x, fail |-> FALSE]
      [] a = "inc" -> [out |-> x + 1, fail |-> FALSE]
      [] a = "failEven" -> IF x % 2 = 0
                             THEN [out |-> 0, fail |-> TRUE]
                             ELSE [out |-> 2 * x, fail |-> FALSE]

\* Mutant of Stamp: every envelope is stamped with the index 0.
StampFirst(i, item) == [Index |-> 0, Item |-> item, Err |-> NoErr]

\* IndexedItem{Index: i, Item: item} written by the feeder of a slice.
Stamp(i, item) == [Index |-> i, Item |-> item, Err |-> NoErr]

\* The value the feeder of a channel method writes: the item alone.
Wrap(item) == [Index |-> NoIndex, Item |-> item, Err |-> NoErr]

BagAdd(b, e) == b (+) SetToBag({e})
BagDel(b, e) == b (-) SetToBag({e})

Zeros(n) == [i \in 1..n |-> 0]

\* No channel of the call has been closed.
NoCloses == [ch |-> [c \in 0..MaxStages |-> <<>>], out |-> <<>>, err |-> <<>>]

\* close(c) by the goroutine who, on a stage channel, on the returned output
\* channel, and on the returned error channel.
ClosesStage(c, who) == closes' = [closes EXCEPT !.ch[c] = Append(@, who)]

ClosesOut(who) == closes' = [closes EXCEPT !.out = Append(@, who)]

ClosesErr(who) == closes' = [closes EXCEPT !.err = Append(@, who)]

NoRet == [returned |-> FALSE, isNil |-> FALSE, seq |-> <<>>, err |-> NoErr]

\* NewTransformer(workers): the transformer struct with the worker count as
\* given.  The function has one result, the transformer, and no error.
NewTransformer(w) == [workers |-> w]


\* ------------------------------------------------------- SinglyLinkedList
\* The longest list.
MaxLen == 3

\* The values stored in a list of int: two, so that a value can be repeated.
ListValues == 1..2

\* The indexes a caller passes: every valid one and some on both sides.
ListIndexes == (0 - 2)..(MaxLen + 2)

\* The zero value of T, which a named result holds when it was never set.
ZeroValue == 0

\* Node pointers: nil, and the nodes the program can hold at one time.
Nil == 0

NodeIds == 1..MaxLen

\* What dereferencing nil gives: the program panics.
Crash == 0 - 1

\* A node that no pointer refers to any more and that was collected.
FreeNode == [value |-> ZeroValue, next |-> Nil]

VARIABLES
    head,             \* SinglyLinkedList.head
    size,             \* SinglyLinkedList.size
    nodes,            \* the Node structs: value and next of every node
    call              \* the last method called on the list and its results

list == <<head, size, nodes, call>>

\* The zero value &SinglyLinkedList[int]{} every test starts from.
EmptyList ==
    /\ head = Nil
    /\ size = 0
    /\ nodes = [n \in NodeIds |-> FreeNode]
    /\ call = [op |-> "new", value |-> ZeroValue, index |-> 0,
               val |-> ZeroValue, found |-> FALSE, pos |-> 0, err |-> FALSE,
               panicked |-> FALSE, before |-> <<>>]

\* The nodes linked from n: the loop current = current.next until nil.
RECURSIVE Linked(_, _)
Linked(n, fuel) ==
    IF n = Nil \/ fuel = 0 THEN {}
    ELSE {n} \cup Linked(nodes[n].next, fuel - 1)

Reachable == Linked(head, MaxLen)

\* The values from head to tail, as Traversal and String visit them.
RECURSIVE ValuesFrom(_, _)
ValuesFrom(n, fuel) ==
    IF n = Nil \/ fuel = 0 THEN <<>>
    ELSE <<nodes[n].value>> \o ValuesFrom(nodes[n].next, fuel - 1)

Traversal == ValuesFrom(head, MaxLen)

\* &Node[T]{...}: a node that is not in use.
NewNode == CHOOSE n \in NodeIds :
              /\ n \notin Reachable
              /\ \A m \in NodeIds : m \notin Reachable => n <= m

\* current.next
NextOf(n) == IF n \in NodeIds THEN nodes[n].next ELSE Crash

\* current.value
ValueOf(n) == IF n \in NodeIds THEN nodes[n].value ELSE Crash

\* for i := 1; i < index; i++ { current = current.next }, from current = n
\* and i = from.
RECURSIVE Advance(_, _, _)
Advance(n, from, index) ==
    IF from < index THEN Advance(NextOf(n), from + 1, index) ELSE n

\* Size()
Size == size

\* IsEmpty()
IsEmpty == size = 0


vars == <<transform, list>>

\* ------------------------------------------------------------------- Init
\* The state when the method is entered.  For the channel methods the caller
\* made the input channel (any capacity up to the number of items) and a
\* producer writes the items to it and closes it.
Init ==
    /\ mode \in Modes
    /\ items \in SeqsUpTo(ItemValues, MaxItems)
    /\ actions \in SeqsUpTo(IF WithError(mode) THEN ActionsWithError
                                               ELSE ActionsNoError, MaxStages)
    /\ workers \in {NewTransformer(w).workers : w \in 0..MaxWorkers}
    /\ Len(items) + Len(actions) + workers <= MaxTotal
    /\ pc = "call"
    /\ stage = 0
    /\ chBuf = [c \in 0..MaxStages |-> <<>>]
    /\ chCap = [c \in 0..MaxStages |-> 0 - 1]
    /\ chClosed = [c \in 0..MaxStages |-> FALSE]
    /\ fpc = "off"
    /\ fIdx = 0
    /\ fHold = <<>>
    /\ wIdle = [k \in 1..MaxStages |-> 0]
    /\ wHold = [k \in 1..MaxStages |-> EmptyBag]
    /\ wDone = [k \in 1..MaxStages |-> 0]
    /\ transformedItems = <<>>
    /\ ret = NoRet
    /\ inBuf = <<>>
    /\ IF Bounded(mode)
         THEN inCap = 0 /\ inClosed = TRUE /\ pIdx = Len(items)
         ELSE inCap \in 0..Len(items) /\ inClosed = FALSE /\ pIdx = 0
    /\ outBuf = <<>>
    /\ outCap = 0 - 1
    /\ outClosed = FALSE
    /\ errBuf = <<>>
    /\ errClosed = FALSE
    /\ cpc = "off"
    /\ cHold = <<>>
    /\ outputs = <<>>
    /\ outputErrors = <<>>
    /\ closes = NoCloses
    /\ EmptyList

\* A panic of the calling goroutine ends the program and every goroutine.
Alive == pc # "panicked"

\* --------------------------------------------------------------- producer
\* The caller's side of the input channel: items <- x, then close(items).
ProducerSend ==
    /\ Alive
    /\ pIdx < N
    /\ Len(inBuf) < inCap
    /\ inBuf' = Append(inBuf, items[pIdx + 1])
    /\ pIdx' = pIdx + 1
    /\ UNCHANGED <<list, params, closes, pc, stage, chans, feeder, pool, result, inCap,
                   inClosed, outs, collector, consumer>>

ProducerClose ==
    /\ Alive
    /\ pIdx = N
    /\ ~inClosed
    /\ inClosed' = TRUE
    /\ UNCHANGED <<list, params, closes, pc, stage, chans, feeder, pool, result, inBuf,
                   inCap, pIdx, outs, collector, consumer>>

\* ------------------------------------------------------------ the caller
\* make(chan ..., len(items)) and go func() { feeder }: for a slice len is the
\* number of items, for a channel it is the number of items buffered now.
EntryCap == IF Bounded(mode) THEN Len(items) ELSE Len(inBuf)

Call ==
    /\ pc = "call"
    /\ chCap' = [chCap EXCEPT ![0] = EntryCap]
    /\ fpc' = "loop"
    /\ pc' = "process"
    /\ UNCHANGED <<list, params, closes, stage, chBuf, chClosed, fIdx, fHold, pool, result,
                   input, outs, collector, consumer>>

\* make(chan Item, len(items)) in process: items is the entry channel, so the
\* capacity is the number of envelopes buffered in it at this moment.
StageCap == Len(chBuf[0])

\* Mutant of ProcessStage: a stage always starts at least one worker.
ProcessStageOneWorker ==
    /\ pc = "process"
    /\ stage < K
    /\ chCap' = [chCap EXCEPT ![stage + 1] = StageCap]
    /\ wIdle' = [wIdle EXCEPT ![stage + 1] = IF workers = 0 THEN 1 ELSE workers]
    /\ stage' = stage + 1
    /\ UNCHANGED <<list, params, closes, pc, chBuf, chClosed, feeder, wHold,
                   wDone, result, input, outs, collector, consumer>>

\* One iteration of the loop of process: make the output channel of the
\* stage, start its workers and the goroutine that waits for them.
ProcessStage ==
    /\ pc = "process"
    /\ stage < K
    /\ chCap' = [chCap EXCEPT ![stage + 1] = StageCap]
    /\ wIdle' = [wIdle EXCEPT ![stage + 1] = workers]
    /\ stage' = stage + 1
    /\ UNCHANGED <<list, params, closes, pc, chBuf, chClosed, feeder, wHold, wDone, result,
                   input, outs, collector, consumer>>

\* return channels[len(channels)-1]: with no action the index is -1 and the
\* call panics.  Otherwise the caller goes on to collect (slice methods) or
\* makes the returned channels, starts the collector and returns them.
OutCap == Len(inBuf)

ProcessReturn ==
    /\ pc = "process"
    /\ stage = K
    /\ IF K = 0
         THEN /\ pc' = "panicked"
              /\ UNCHANGED <<transformedItems, outCap, cpc>>
         ELSE IF Bounded(mode)
                THEN /\ pc' = "collect"
                     /\ transformedItems' = Zeros(N)
                     /\ UNCHANGED <<outCap, cpc>>
                ELSE /\ pc' = "returned"
                     /\ outCap' = OutCap
                     /\ cpc' = "recv"
                     /\ UNCHANGED transformedItems
    /\ UNCHANGED <<list, params, closes, stage, chans, feeder, pool, ret, input, outBuf,
                   outClosed, errBuf, errClosed, cHold, consumer>>

\* ------------------------------------------------------------- the feeder
\* The feeder of a slice ranges over items; the feeder of a channel method
\* ranges over the input channel and holds the item it has just received.
FeederReady ==
    /\ Alive
    /\ fpc = "loop"
    /\ IF Bounded(mode) THEN fIdx < N ELSE fHold # <<>>

\* The value of itemsCh <- ...
FeederEnv == IF Bounded(mode) THEN Stamp(fIdx, items[fIdx + 1])
                              ELSE Wrap(fHold[1])

\* The feeder after its send has completed.
FeederSent ==
    /\ fIdx' = IF Bounded(mode) THEN fIdx + 1 ELSE fIdx
    /\ fHold' = <<>>
    /\ UNCHANGED fpc

\* for item := range items, from the buffer of the input channel.
FeederRecv ==
    /\ Alive
    /\ fpc = "loop"
    /\ ~Bounded(mode)
    /\ fHold = <<>>
    /\ inBuf # <<>>
    /\ fHold' = <<Head(inBuf)>>
    /\ inBuf' = Tail(inBuf)
    /\ UNCHANGED <<list, params, closes, pc, stage, chans, fpc, fIdx, pool, result, inCap,
                   inClosed, pIdx, outs, collector, consumer>>

\* The same receive on an unbuffered input channel: the producer's send and
\* the feeder's receive are one step.
FeederRecvProducer ==
    /\ Alive
    /\ fpc = "loop"
    /\ ~Bounded(mode)
    /\ fHold = <<>>
    /\ inCap = 0
    /\ pIdx < N
    /\ fHold' = <<items[pIdx + 1]>>
    /\ pIdx' = pIdx + 1
    /\ UNCHANGED <<list, params, closes, pc, stage, chans, fpc, fIdx, pool, result, inBuf,
                   inCap, inClosed, outs, collector, consumer>>

\* itemsCh <- envelope, into the buffer.
FeederSend ==
    /\ FeederReady
    /\ Len(chBuf[0]) < chCap[0]
    /\ chBuf' = [chBuf EXCEPT ![0] = Append(@, FeederEnv)]
    /\ FeederSent
    /\ UNCHANGED <<list, params, closes, pc, stage, chCap, chClosed, pool, result, input,
                   outs, collector, consumer>>

\* Mutant of FeederExhausted: an input channel that is empty counts as closed.
FeederExhaustedOnEmpty ==
    IF Bounded(mode) THEN fIdx = N
                     ELSE fHold = <<>> /\ inBuf = <<>>

\* Mutant of FeederExhausted: the loop ends one item early.
FeederExhaustedEarly ==
    IF Bounded(mode) THEN fIdx >= N - 1
                     ELSE fHold = <<>> /\ inBuf = <<>> /\ inClosed

\* The range loop of the feeder has ended.
FeederExhausted ==
    IF Bounded(mode) THEN fIdx = N
                     ELSE fHold = <<>> /\ inBuf = <<>> /\ inClosed

\* defer close(itemsCh)
FeederClose ==
    /\ Alive
    /\ fpc = "loop"
    /\ FeederExhausted
    /\ chClosed' = [chClosed EXCEPT ![0] = TRUE]
    /\ ClosesStage(0, "feeder")
    /\ fpc' = "done"
    /\ UNCHANGED <<list, params, pc, stage, chBuf, chCap, fIdx, fHold, pool, result,
                   input, outs, collector, consumer>>

\* ------------------------------------------------------------ the workers
\* Mutant of WorkerOutput: the index of the input envelope is not copied.
WorkerOutputNoIndex(k, e) ==
    LET r == Act(actions[k], e.Item)
    IN  [Index |-> 0,
         Item |-> r.out,
         Err |-> IF WithError(mode) /\ r.fail
                   THEN NewErr(k, e.Item, e.Index) ELSE NoErr]

\* Mutant of WorkerOutput: every stage runs the first action of the call.
WorkerOutputFirstAction(k, e) ==
    LET r == Act(actions[1], e.Item)
    IN  [Index |-> e.Index,
         Item |-> r.out,
         Err |-> IF WithError(mode) /\ r.fail
                   THEN NewErr(k, e.Item, e.Index) ELSE NoErr]

\* The envelope a worker of stage k sends for the envelope e it received: the
\* index is copied, the item and the error are those the action returned.
WorkerOutput(k, e) ==
    LET r == Act(actions[k], e.Item)
    IN  [Index |-> e.Index,
         Item |-> r.out,
         Err |-> IF WithError(mode) /\ r.fail
                   THEN NewErr(k, e.Item, e.Index) ELSE NoErr]

\* Mutant of WorkerTakes: the worker receives e and goes back to the loop
\* without sending anything.
WorkerTakesDrop(k, e, idle, hold) ==
    /\ wIdle' = idle
    /\ wHold' = hold

\* A worker of stage k has received e and runs the action on it.
WorkerTakes(k, e, idle, hold) ==
    /\ wIdle' = [idle EXCEPT ![k] = @ - 1]
    /\ wHold' = [hold EXCEPT ![k] = BagAdd(@, WorkerOutput(k, e))]

\* Mutant of WorkerRecv: the worker receives the envelope sent last.
WorkerRecvLast(k) ==
    /\ Alive
    /\ wIdle[k] > 0
    /\ chBuf[k - 1] # <<>>
    /\ chBuf' = [chBuf EXCEPT ![k - 1] = SubSeq(@, 1, Len(@) - 1)]
    /\ WorkerTakes(k, chBuf[k - 1][Len(chBuf[k - 1])], wIdle, wHold)
    /\ UNCHANGED <<list, params, closes, pc, stage, chCap, chClosed, feeder,
                   wDone, result, input, outs, collector, consumer>>

\* for indexedInput := range inputChan, from the buffer.
WorkerRecv(k) ==
    /\ Alive
    /\ wIdle[k] > 0
    /\ chBuf[k - 1] # <<>>
    /\ chBuf' = [chBuf EXCEPT ![k - 1] = Tail(@)]
    /\ WorkerTakes(k, Head(chBuf[k - 1]), wIdle, wHold)
    /\ UNCHANGED <<list, params, closes, pc, stage, chCap, chClosed, feeder, wDone, result,
                   input, outs, collector, consumer>>

\* The same receive on an unbuffered entry channel, from the feeder.
WorkerRecvFeeder ==
    /\ wIdle[1] > 0
    /\ chCap[0] = 0
    /\ FeederReady
    /\ WorkerTakes(1, FeederEnv, wIdle, wHold)
    /\ FeederSent
    /\ UNCHANGED <<list, params, closes, pc, stage, chans, wDone, result, input, outs,
                   collector, consumer>>

\* The same receive on an unbuffered stage channel, from a worker of the
\* stage before that is blocked in its send.
WorkerRecvWorker(k) ==
    /\ Alive
    /\ k > 1
    /\ wIdle[k] > 0
    /\ chCap[k - 1] = 0
    /\ \E e \in BagToSet(wHold[k - 1]) :
          WorkerTakes(k, e, [wIdle EXCEPT ![k - 1] = @ + 1],
                      [wHold EXCEPT ![k - 1] = BagDel(@, e)])
    /\ UNCHANGED <<list, params, closes, pc, stage, chans, feeder, wDone, result, input,
                   outs, collector, consumer>>

\* outputChan <- envelope, into the buffer.
WorkerSend(k) ==
    /\ Alive
    /\ Len(chBuf[k]) < chCap[k]
    /\ \E e \in BagToSet(wHold[k]) :
          /\ chBuf' = [chBuf EXCEPT ![k] = Append(@, e)]
          /\ wHold' = [wHold EXCEPT ![k] = BagDel(@, e)]
    /\ wIdle' = [wIdle EXCEPT ![k] = @ + 1]
    /\ UNCHANGED <<list, params, closes, pc, stage, chCap, chClosed, feeder, wDone, result,
                   input, outs, collector, consumer>>

\* Mutant of Drained: the loop ends as soon as the channel is empty.
DrainedEmpty(c) == chBuf[c] = <<>>

\* A range loop over channel c ends when c is closed and drained.
Drained(c) == chBuf[c] = <<>> /\ chClosed[c]

\* Mutant of WorkerExit: the worker returns without wg.Done().
WorkerExitNoDone(k) ==
    /\ Alive
    /\ wIdle[k] > 0
    /\ Drained(k - 1)
    /\ wIdle' = [wIdle EXCEPT ![k] = @ - 1]
    /\ UNCHANGED <<list, params, closes, pc, stage, chans, feeder, wHold, wDone, result,
                   input, outs, collector, consumer>>

\* The range loop of a worker ends: defer wg.Done().
WorkerExit(k) ==
    /\ Alive
    /\ wIdle[k] > 0
    /\ Drained(k - 1)
    /\ wIdle' = [wIdle EXCEPT ![k] = @ - 1]
    /\ wDone' = [wDone EXCEPT ![k] = @ + 1]
    /\ UNCHANGED <<list, params, closes, pc, stage, chans, feeder, wHold, result, input,
                   outs, collector, consumer>>

\* Mutant of WaitOver: the channel is closed without wg.Wait().
WaitOverNoWait(k) == chCap[k] >= 0

\* Mutant of WaitOver: the wait group counts one worker too many.
WaitOverOneMore(k) == chCap[k] >= 0 /\ wDone[k] = workers + 1

\* wg.Wait() returns: every worker started for the stage has called Done.
WaitOver(k) == chCap[k] >= 0 /\ wDone[k] = workers

\* Mutant of BarrierPending: the barrier goroutine of a stage runs again.
BarrierPendingAlways(k) == TRUE

\* The barrier goroutine of stage k has not run to its end yet.
BarrierPending(k) == ~chClosed[k]

\* go func() { wg.Wait(); close(outputChan) }()
BarrierClose(k) ==
    /\ Alive
    /\ WaitOver(k)
    /\ BarrierPending(k)
    /\ chClosed' = [chClosed EXCEPT ![k] = TRUE]
    /\ ClosesStage(k, "barrier")
    /\ UNCHANGED <<list, params, pc, stage, chBuf, chCap, feeder, pool, result,
                   input, outs, collector, consumer>>

\* --------------------------------------------------- the blocking collector
\* Mutant of Place: the item goes to the first position not yet written, so
\* the result is in the order of arrival.
PlaceArrival(arr, e) ==
    LET free == {i \in 1..Len(arr) : arr[i] = 0}
    IN  IF free = {} THEN arr
        ELSE [arr EXCEPT ![CHOOSE i \in free : \A j \in free : i <= j] = e.Item]

\* transformedItems[indexedItem.Index] = indexedItem.Item
Place(arr, e) == [arr EXCEPT ![e.Index + 1] = e.Item]

\* Mutant of ReturnErr: the error returned is one made for the first item.
ReturnErrFirstItem(arr, e) ==
    [returned |-> TRUE, isNil |-> TRUE, seq |-> <<>>,
     err |-> [e.Err EXCEPT !.idx = 0]]

\* Mutant of ReturnErr: the partly filled slice is returned with the error.
ReturnErrPartial(arr, e) == [returned |-> TRUE, isNil |-> FALSE, seq |-> arr,
                             err |-> e.Err]

\* return nil, indexedItem.Err
ReturnErr(arr, e) == [returned |-> TRUE, isNil |-> TRUE, seq |-> <<>>,
                      err |-> e.Err]

\* return transformedItems (Transform), return transformedItems, nil
ReturnAll(arr) == [returned |-> TRUE, isNil |-> FALSE, seq |-> arr,
                   err |-> NoErr]

\* if indexedItem.Err != nil, which only TransformWithError has.
StopsOn(e) == mode = "TransformWithError" /\ e.Err # NoErr

\* The body of the collecting loop for the envelope e.
CollectStep(e) ==
    IF StopsOn(e)
      THEN /\ pc' = "returned"
           /\ ret' = ReturnErr(transformedItems, e)
           /\ UNCHANGED transformedItems
      ELSE /\ transformedItems' = Place(transformedItems, e)
           /\ UNCHANGED <<pc, ret>>

\* for indexedItem := range transformedItemsCh, from the buffer.
Collect ==
    /\ pc = "collect"
    /\ chBuf[K] # <<>>
    /\ chBuf' = [chBuf EXCEPT ![K] = Tail(@)]
    /\ CollectStep(Head(chBuf[K]))
    /\ UNCHANGED <<list, params, closes, stage, chCap, chClosed, feeder, pool, input, outs,
                   collector, consumer>>

\* The same receive on an unbuffered exit channel, from a worker of the last
\* stage that is blocked in its send.
CollectWorker ==
    /\ pc = "collect"
    /\ chCap[K] = 0
    /\ \E e \in BagToSet(wHold[K]) :
          /\ wHold' = [wHold EXCEPT ![K] = BagDel(@, e)]
          /\ CollectStep(e)
    /\ wIdle' = [wIdle EXCEPT ![K] = @ + 1]
    /\ UNCHANGED <<list, params, closes, stage, chans, feeder, wDone, input, outs,
                   collector, consumer>>

\* The collecting loop ends: the exit channel is closed and drained.
CollectDone ==
    /\ pc = "collect"
    /\ Drained(K)
    /\ pc' = "returned"
    /\ ret' = ReturnAll(transformedItems)
    /\ UNCHANGED <<list, params, closes, stage, chans, feeder, pool, transformedItems,
                   input, outs, collector, consumer>>

\* -------------------------------------------------- the streaming collector
\* Mutant of ForwardsError: the collector does not look at the error.
ForwardsNoError(e) == FALSE

\* if item.Err != nil, which only TransformChannelsWithError has.
ForwardsError(e) == mode = "TransformChannelsWithError" /\ e.Err # NoErr

\* Mutant of CollectorTakes: the two branches of the if are exchanged.
CollectorTakesSwapped(e) ==
    /\ cpc' = IF ForwardsError(e) THEN "send" ELSE "sendErr"
    /\ cHold' = <<e>>

\* The collector has received e: it goes to errors <- item.Err or to
\* transformedItems <- item.Item.
CollectorTakes(e) ==
    /\ cpc' = IF ForwardsError(e) THEN "sendErr" ELSE "send"
    /\ cHold' = <<e>>

\* for item := range transformedItemsCh, from the buffer.
CollectorRecv ==
    /\ cpc = "recv"
    /\ chBuf[K] # <<>>
    /\ chBuf' = [chBuf EXCEPT ![K] = Tail(@)]
    /\ CollectorTakes(Head(chBuf[K]))
    /\ UNCHANGED <<list, params, closes, pc, stage, chCap, chClosed, feeder, pool, result,
                   input, outs, consumer>>

\* The same receive on an unbuffered exit channel.
CollectorRecvWorker ==
    /\ cpc = "recv"
    /\ chCap[K] = 0
    /\ \E e \in BagToSet(wHold[K]) :
          /\ wHold' = [wHold EXCEPT ![K] = BagDel(@, e)]
          /\ CollectorTakes(e)
    /\ wIdle' = [wIdle EXCEPT ![K] = @ + 1]
    /\ UNCHANGED <<list, params, closes, pc, stage, chans, feeder, wDone, result, input,
                   outs, consumer>>

\* Mutant of FirstDeferred: close(errors) is not deferred.
FirstDeferredOutOnly == "closeOut"

\* The first deferred call to run when the collector returns: close(errors)
\* in TransformChannelsWithError, close(transformedItems) in
\* TransformChannels, which has no error channel.
FirstDeferred == IF WithError(mode) THEN "closeErr" ELSE "closeOut"

\* The loop of the collector ends: the exit channel is closed and drained.
CollectorExhausted ==
    /\ cpc = "recv"
    /\ Drained(K)
    /\ cpc' = FirstDeferred
    /\ UNCHANGED <<list, params, closes, pc, stage, chans, feeder, pool, result, input,
                   outs, cHold, consumer>>

\* transformedItems <- item, into the buffer.
CollectorSend ==
    /\ cpc = "send"
    /\ Len(outBuf) < outCap
    /\ outBuf' = Append(outBuf, cHold[1].Item)
    /\ cpc' = "recv"
    /\ cHold' = <<>>
    /\ UNCHANGED <<list, params, closes, pc, stage, chans, feeder, pool, result, input,
                   outCap, outClosed, errBuf, errClosed, consumer>>

\* The capacity of make(chan error, 1).
ErrCap == 1

\* Mutant of AfterError: continue instead of return.
AfterErrorContinue == "recv"

\* Where the collector goes after errors <- item.Err: return.
AfterError == FirstDeferred

\* errors <- item.Err; return
CollectorSendErr ==
    /\ cpc = "sendErr"
    /\ Len(errBuf) < ErrCap
    /\ errBuf' = Append(errBuf, cHold[1].Err)
    /\ cpc' = AfterError
    /\ cHold' = <<>>
    /\ UNCHANGED <<list, params, closes, pc, stage, chans, feeder, pool, result, input,
                   outBuf, outCap, outClosed, errClosed, consumer>>

\* defer close(errors)
CollectorCloseErr ==
    /\ cpc = "closeErr"
    /\ errClosed' = TRUE
    /\ ClosesErr("collector")
    /\ cpc' = "closeOut"
    /\ UNCHANGED <<list, params, pc, stage, chans, feeder, pool, result, input,
                   outBuf, outCap, outClosed, errBuf, cHold, consumer>>

\* defer close(transformedItems)
CollectorCloseOut ==
    /\ cpc = "closeOut"
    /\ outClosed' = TRUE
    /\ ClosesOut("collector")
    /\ cpc' = "done"
    /\ UNCHANGED <<list, params, pc, stage, chans, feeder, pool, result, input,
                   outBuf, outCap, errBuf, errClosed, cHold, consumer>>

\* ------------------------------------------------------------ the consumer
\* The caller reads the two returned channels, in any order.
ConsumeOut ==
    /\ pc = "returned"
    /\ outBuf # <<>>
    /\ outputs' = Append(outputs, Head(outBuf))
    /\ outBuf' = Tail(outBuf)
    /\ UNCHANGED <<list, params, closes, pc, stage, chans, feeder, pool, result, input,
                   outCap, outClosed, errBuf, errClosed, collector,
                   outputErrors>>

\* The same receive on an unbuffered output channel, from the collector.
ConsumeOutCollector ==
    /\ pc = "returned"
    /\ outCap = 0
    /\ cpc = "send"
    /\ outputs' = Append(outputs, cHold[1].Item)
    /\ cpc' = "recv"
    /\ cHold' = <<>>
    /\ UNCHANGED <<list, params, closes, pc, stage, chans, feeder, pool, result, input,
                   outs, outputErrors>>

ConsumeErr ==
    /\ pc = "returned"
    /\ errBuf # <<>>
    /\ outputErrors' = Append(outputErrors, Head(errBuf))
    /\ errBuf' = Tail(errBuf)
    /\ UNCHANGED <<list, params, closes, pc, stage, chans, feeder, pool, result, input,
                   outBuf, outCap, outClosed, errClosed, collector, outputs>>

\* ---------------------------------------------------------- specification
Stages == 1..MaxStages

\* The goroutines every method starts: the caller up to the end of process,
\* the feeder's sends, the workers and the barriers.
Pipeline ==
    \/ Call
    \/ ProcessStage
    \/ ProcessReturn
    \/ FeederSend
    \/ FeederClose
    \/ \E k \in Stages : WorkerRecv(k)
    \/ \E k \in Stages : WorkerRecvWorker(k)
    \/ \E k \in Stages : WorkerSend(k)
    \/ \E k \in Stages : WorkerExit(k)
    \/ \E k \in Stages : BarrierClose(k)

\* Transform and TransformWithError: the caller collects.
Collecting ==
    \/ Collect
    \/ CollectWorker
    \/ CollectDone

\* TransformChannels and TransformChannelsWithError: the producer, the feeder
\* reading the input channel, the collector goroutine and the consumer.
Streaming ==
    \/ ProducerSend
    \/ ProducerClose
    \/ FeederRecv
    \/ FeederRecvProducer
    \/ WorkerRecvFeeder
    \/ CollectorRecv
    \/ CollectorRecvWorker
    \/ CollectorExhausted
    \/ CollectorSend
    \/ CollectorCloseOut
    \/ ConsumeOut
    \/ ConsumeOutCollector

\* TransformChannelsWithError alone: the error channel.
StreamingErrors ==
    \/ CollectorSendErr
    \/ CollectorCloseErr
    \/ ConsumeErr

Next == Pipeline \/ Collecting \/ Streaming \/ StreamingErrors

\* Any call of any of the four methods.
Spec == Init /\ [][Next]_vars

\* One specification per kind of call.  Weak fairness of the whole step: while
\* some goroutine can run, one does.  Every step consumes something (an item,
\* a loop iteration, a close), so a fair behaviour runs until no goroutine can
\* take a step.
InitSlice == Init /\ Bounded(mode)

NextSlice == Pipeline \/ Collecting

SliceSpec == InitSlice /\ [][NextSlice]_vars /\ WF_vars(NextSlice)

\* A call of Transform alone, whose actions cannot fail.
InitTransform == Init /\ mode = "Transform"

TransformSpec == InitTransform /\ [][NextSlice]_vars /\ WF_vars(NextSlice)

\* A call of TransformWithError alone.
InitTransformWithError == Init /\ mode = "TransformWithError"

TransformWithErrorSpec ==
    InitTransformWithError /\ [][NextSlice]_vars /\ WF_vars(NextSlice)

InitChannels == Init /\ mode = "TransformChannels"

NextChannels == Pipeline \/ Streaming

ChannelsSpec == InitChannels /\ [][NextChannels]_vars /\ WF_vars(NextChannels)

InitChannelsWithError == Init /\ mode = "TransformChannelsWithError"

NextChannelsWithError == Pipeline \/ Streaming \/ StreamingErrors

ChannelsWithErrorSpec ==
    /\ InitChannelsWithError
    /\ [][NextChannelsWithError]_vars
    /\ WF_vars(NextChannelsWithError)

\* ------------------------------------------- SinglyLinkedList: the methods
\* What a method call leaves behind for the caller: its arguments, its
\* results, and what Traversal gave before the call.
Returned(op, value, index, val, found, pos, err) ==
    [op |-> op, value |-> value, index |-> index, val |-> val,
     found |-> found, pos |-> pos, err |-> err, panicked |-> FALSE,
     before |-> Traversal]

\* A nil pointer was dereferenced: the call panics and the test ends.
Panics(op, value, index) ==
    /\ call' = [op |-> op, value |-> value, index |-> index,
                val |-> ZeroValue, found |-> FALSE, pos |-> 0, err |-> FALSE,
                panicked |-> TRUE, before |-> Traversal]
    /\ UNCHANGED <<head, size, nodes>>

\* The list can be used, and there is memory for one more node.
Usable == ~call.panicked

Room == Usable /\ Cardinality(Reachable) < MaxLen

\* list.size++
Grown == size + 1

\* Mutant of Shrunk: the size is not decremented.
ShrunkNot == size

\* list.size--
Shrunk == size - 1

\* newNode := &Node[T]{value: value, next: list.head}; list.head = newNode;
\* list.size++
LinkFirst(value) ==
    /\ nodes' = [nodes EXCEPT ![NewNode] = [value |-> value, next |-> head]]
    /\ head' = NewNode
    /\ size' = Grown

InsertFirst(value) ==
    /\ Room
    /\ LinkFirst(value)
    /\ call' = Returned("InsertFirst", value, 0, ZeroValue, FALSE, 0, FALSE)
    /\ UNCHANGED transform

\* for current.next != nil { current = current.next }
RECURSIVE LastFrom(_, _)
LastFrom(n, fuel) ==
    IF NextOf(n) = Nil \/ fuel = 0 THEN n ELSE LastFrom(NextOf(n), fuel - 1)

InsertLast(value) ==
    /\ Room
    /\ IF head = Nil
         THEN /\ nodes' = [nodes EXCEPT
                             ![NewNode] = [value |-> value, next |-> Nil]]
              /\ head' = NewNode
         ELSE /\ nodes' = [nodes EXCEPT
                             ![NewNode] = [value |-> value, next |-> Nil],
                             ![LastFrom(head, MaxLen)].next = NewNode]
              /\ UNCHANGED head
    /\ size' = Grown
    /\ call' = Returned("InsertLast", value, 0, ZeroValue, FALSE, 0, FALSE)
    /\ UNCHANGED transform

\* Mutant of InsertOutOfRange: the index equal to the size is refused.
InsertOutOfRangeAtEnd(index) == index < 0 \/ index >= size

\* if index < 0 || index > list.size
InsertOutOfRange(index) == index < 0 \/ index > size

InsertAt(value, index) ==
    /\ Usable
    /\ InsertOutOfRange(index) \/ Room
    /\ IF InsertOutOfRange(index)
         THEN /\ call' = Returned("InsertAt", value, index, ZeroValue, FALSE,
                                  0, TRUE)
              /\ UNCHANGED <<head, size, nodes>>
         ELSE IF index = 0
         THEN /\ LinkFirst(value)
              /\ call' = Returned("InsertAt", value, index, ZeroValue, FALSE,
                                  0, FALSE)
         ELSE LET current == Advance(head, 1, index)
              IN  IF current \notin NodeIds
                    THEN Panics("InsertAt", value, index)
                    ELSE /\ nodes' = [nodes EXCEPT
                                ![NewNode] = [value |-> value,
                                              next |-> nodes[current].next],
                                ![current].next = NewNode]
                         /\ size' = Grown
                         /\ UNCHANGED head
                         /\ call' = Returned("InsertAt", value, index,
                                             ZeroValue, FALSE, 0, FALSE)
    /\ UNCHANGED transform

\* list.head = list.head.next; list.size--.  The node that was the head is
\* garbage.
UnlinkFirst ==
    /\ head' = nodes[head].next
    /\ nodes' = [nodes EXCEPT ![head] = FreeNode]
    /\ size' = Shrunk

\* The body of DeleteFirst, which DeleteAt calls for the index 0.
DeleteFirstAs(op, index) ==
    IF head = Nil
      THEN /\ call' = Returned(op, ZeroValue, index, ZeroValue, FALSE, 0, TRUE)
           /\ UNCHANGED <<head, size, nodes>>
      ELSE /\ UnlinkFirst
           /\ call' = Returned(op, ZeroValue, index, nodes[head].value, FALSE,
                               0, FALSE)

DeleteFirst ==
    /\ Usable
    /\ DeleteFirstAs("DeleteFirst", 0)
    /\ UNCHANGED transform

\* for current.next.next != nil { current = current.next }
RECURSIVE BeforeLast(_, _)
BeforeLast(n, fuel) ==
    IF NextOf(NextOf(n)) = Nil \/ fuel = 0 THEN n
    ELSE BeforeLast(NextOf(n), fuel - 1)

\* current.next = current.next.next (for DeleteLast: current.next = nil, the
\* same value); list.size--.  The node that was current.next is garbage.
UnlinkAfter(current) ==
    /\ nodes' = [nodes EXCEPT ![current].next = nodes[nodes[current].next].next,
                              ![nodes[current].next] = FreeNode]
    /\ size' = Shrunk
    /\ UNCHANGED head

DeleteLast ==
    /\ Usable
    /\ IF head = Nil
         THEN /\ call' = Returned("DeleteLast", ZeroValue, 0, ZeroValue, FALSE,
                                  0, TRUE)
              /\ UNCHANGED <<head, size, nodes>>
         ELSE IF nodes[head].next = Nil
         THEN /\ head' = Nil
              /\ nodes' = [nodes EXCEPT ![head] = FreeNode]
              /\ size' = Shrunk
              /\ call' = Returned("DeleteLast", ZeroValue, 0,
                                  nodes[head].value, FALSE, 0, FALSE)
         ELSE LET current == BeforeLast(head, MaxLen)
              IN  /\ UnlinkAfter(current)
                  /\ call' = Returned("DeleteLast", ZeroValue, 0,
                                      nodes[nodes[current].next].value, FALSE,
                                      0, FALSE)
    /\ UNCHANGED transform

\* Mutant of DeleteOutOfRange: the index equal to the size is let through.
DeleteOutOfRangePastEnd(index) == index < 0 \/ index > size

\* if index < 0 || index >= list.size
DeleteOutOfRange(index) == index < 0 \/ index >= size

DeleteAt(index) ==
    /\ Usable
    /\ IF DeleteOutOfRange(index)
         THEN /\ call' = Returned("DeleteAt", ZeroValue, index, ZeroValue,
                                  FALSE, 0, TRUE)
              /\ UNCHANGED <<head, size, nodes>>
         ELSE IF index = 0
         THEN DeleteFirstAs("DeleteAt", index)
         ELSE LET current == Advance(head, 1, index)
              IN  IF current \notin NodeIds \/ NextOf(current) \notin NodeIds
                    THEN Panics("DeleteAt", ZeroValue, index)
                    ELSE /\ UnlinkAfter(current)
                         /\ call' = Returned("DeleteAt", ZeroValue, index,
                                             nodes[nodes[current].next].value,
                                             FALSE, 0, FALSE)
    /\ UNCHANGED transform

\* Mutant of BeforeValue: the comparison of the values is inverted.
RECURSIVE BeforeValueOther(_, _, _)
BeforeValueOther(n, value, fuel) ==
    IF NextOf(n) = Nil \/ ValueOf(NextOf(n)) # value \/ fuel = 0 THEN n
    ELSE BeforeValueOther(NextOf(n), value, fuel - 1)

\* for current.next != nil && current.next.value != value
\*     { current = current.next }
RECURSIVE BeforeValue(_, _, _)
BeforeValue(n, value, fuel) ==
    IF NextOf(n) = Nil \/ ValueOf(NextOf(n)) = value \/ fuel = 0 THEN n
    ELSE BeforeValue(NextOf(n), value, fuel - 1)

DeleteValue(value) ==
    /\ Usable
    /\ IF head = Nil
         THEN /\ call' = Returned("DeleteValue", value, 0, ZeroValue, FALSE, 0,
                                  TRUE)
              /\ UNCHANGED <<head, size, nodes>>
         ELSE IF nodes[head].value = value
         THEN /\ UnlinkFirst
              /\ call' = Returned("DeleteValue", value, 0, ZeroValue, TRUE, 0,
                                  FALSE)
         ELSE LET current == BeforeValue(head, value, MaxLen)
              IN  IF nodes[current].next = Nil
                    THEN /\ call' = Returned("DeleteValue", value, 0,
                                             ZeroValue, FALSE, 0, FALSE)
                         /\ UNCHANGED <<head, size, nodes>>
                    ELSE /\ UnlinkAfter(current)
                         /\ call' = Returned("DeleteValue", value, 0,
                                             ZeroValue, TRUE, 0, FALSE)
    /\ UNCHANGED transform

\* Mutant of SearchFrom: the index is counted from the tail.
RECURSIVE SearchFromTail(_, _, _, _)
SearchFromTail(n, index, value, fuel) ==
    IF n = Nil \/ fuel = 0 THEN 0 - 1
    ELSE IF nodes[n].value = value THEN Cardinality(Linked(n, fuel)) - 1
    ELSE SearchFromTail(nodes[n].next, index + 1, value, fuel - 1)

\* for current != nil { if current.value == value { return index, nil };
\*     index++; current = current.next }; return -1, nil
RECURSIVE SearchFrom(_, _, _, _)
SearchFrom(n, index, value, fuel) ==
    IF n = Nil \/ fuel = 0 THEN 0 - 1
    ELSE IF nodes[n].value = value THEN index
    ELSE SearchFrom(nodes[n].next, index + 1, value, fuel - 1)

Search(value) ==
    /\ Usable
    /\ call' = IF head = Nil
                 THEN Returned("Search", value, 0, ZeroValue, FALSE, 0 - 1,
                               TRUE)
                 ELSE Returned("Search", value, 0, ZeroValue, FALSE,
                               SearchFrom(head, 0, value, MaxLen), FALSE)
    /\ UNCHANGED <<head, size, nodes>>
    /\ UNCHANGED transform

\* A test of the list: it starts from the empty list, no transformer is
\* called, and it calls the methods in any order with any arguments.
InitList ==
    /\ Init
    /\ mode = "Transform" /\ items = <<>> /\ actions = <<>> /\ workers = 0

NextList ==
    \/ \E v \in ListValues : InsertFirst(v)
    \/ \E v \in ListValues : InsertLast(v)
    \/ \E v \in ListValues : \E i \in ListIndexes : InsertAt(v, i)
    \/ DeleteFirst
    \/ DeleteLast
    \/ \E i \in ListIndexes : DeleteAt(i)
    \/ \E v \in ListValues : DeleteValue(v)
    \/ \E v \in ListValues : Search(v)

ListSpec == InitList /\ [][NextList]_vars

\* ------------------------------------------------- the sequential reference
\* The value of the item x after the first j actions of the call, each
\* applied to the output of the one before.
RECURSIVE Chain(_, _)
Chain(x, j) == IF j = 0 THEN x ELSE Act(actions[j], Chain(x, j - 1)).out

\* Action j fails on what the item x has become when it reaches stage j.
FailAt(x, j) == Act(actions[j], Chain(x, j - 1)).fail

\* map(ak o ... o a1, items)
Mapped == [i \in 1..N |-> Chain(items[i], K)]

\* Some action of some stage fails for some item.
SomeFails == \E i \in 1..N : \E j \in 1..K : FailAt(items[i], j)

\* The envelope of item i leaves the last stage with an error.
ExitFails(i) == K >= 1 /\ FailAt(items[i], K)

SeqBag(q) == LET Cnt(v) == Cardinality({i \in 1..Len(q) : q[i] = v})
             IN  [v \in {q[i] : i \in 1..Len(q)} |-> Cnt(v)]

\* ------------------------------------------------------------------ claims

\* C1: Transform with one action f and W >= 1 workers returns a sequence of
\* the length of the input whose position i holds f(items[i]), whatever the
\* order in which feeder and workers ran.
C1_OrderPreservation ==
    (mode = "Transform" /\ K = 1 /\ workers >= 1 /\ ret.returned)
        => /\ ~ret.isNil
           /\ Len(ret.seq) = N
           /\ \A i \in 1..N : ret.seq[i] = Act(actions[1], items[i]).out

\* Transform has returned for two different items and two workers.
C1_Witness ==
    /\ mode = "Transform" /\ K = 1 /\ workers >= 2 /\ ret.returned
    /\ N >= 2 /\ items[1] # items[2]

\* C2: a slice call with k >= 2 actions and W >= 1 workers that returns a
\* sequence returns one of the length of the input whose position i holds
\* ak(...a2(a1(items[i]))...), and Transform always returns a sequence.
C2_StageComposition ==
    (Bounded(mode) /\ K >= 2 /\ workers >= 1 /\ ret.returned)
        => /\ mode = "Transform" => ~ret.isNil
           /\ ~ret.isNil => ret.seq = Mapped

\* Two different actions have been composed over two different items.
C2_Witness ==
    /\ mode = "Transform" /\ K >= 2 /\ workers >= 2 /\ ret.returned
    /\ N >= 2 /\ items[1] # items[2] /\ actions[1] # actions[2]

\* C3 (as claimed): if any action of any stage fails for any item,
\* TransformWithError returns a nil sequence and a non-nil error.
C3_ErrorShortCircuit ==
    (mode = "TransformWithError" /\ workers >= 1 /\ ret.returned /\ SomeFails)
        => ret.isNil /\ ret.err # NoErr

\* C4: TransformWithError with W >= 1 workers returns either a nil sequence
\* with a non-nil error, or a nil error with a sequence of the length of the
\* input in which every position holds that item's transformed value; never
\* a sequence together with an error.
C4_AllOrNothing ==
    (mode = "TransformWithError" /\ workers >= 1 /\ ret.returned)
        => \/ ret.isNil /\ ret.seq = <<>> /\ ret.err # NoErr
           \/ ~ret.isNil /\ ret.err = NoErr /\ ret.seq = Mapped

\* TransformWithError has returned an error after it had already placed a
\* value in the result slice.
C4_Witness ==
    /\ mode = "TransformWithError" /\ workers >= 1 /\ ret.returned
    /\ ret.isNil /\ \E i \in 1..N : transformedItems[i] # 0

\* The outcome of a slice call computed from the input and the actions alone:
\* no sequence exactly when an envelope leaves the last stage with an error.
ExpectNil == mode = "TransformWithError" /\ \E i \in 1..N : ExitFails(i)

\* C5: the outcome of a slice call (the sequence returned, and for
\* TransformWithError whether an error is returned) is a function of the
\* input and the actions: the same for every W >= 1 and every schedule.
C5_WorkerCountInvariance ==
    (Bounded(mode) /\ workers >= 1 /\ ret.returned)
        => /\ ret.isNil = ExpectNil
           /\ (ret.err # NoErr) = ExpectNil
           /\ ret.seq = IF ExpectNil THEN <<>> ELSE Mapped

\* A call with two workers where one item fails and another does not.
C5_Witness ==
    /\ mode = "TransformWithError" /\ workers >= 2 /\ ret.returned
    /\ \E i, j \in 1..N : ExitFails(i) /\ ~ExitFails(j)

\* Every value sent on the output channel so far, in the order sent: those
\* the consumer has received, then those still buffered.
OutSent == outputs \o outBuf

\* Every error sent on the error channel so far.
ErrSent == outputErrors \o errBuf

\* The consumer has seen the output channel closed and drained.
OutDrained == outClosed /\ outBuf = <<>>

\* C6: in TransformChannels with W >= 1 workers the values sent on the output
\* channel are always among the composed actions applied to the input items,
\* none twice, and once the output channel is closed and drained they are
\* exactly those, as a multiset; with the input closed and the consumer
\* reading, that point is reached.
C6_StreamingMultiset ==
    /\ [](mode = "TransformChannels" /\ workers >= 1
            => /\ SeqBag(OutSent) \sqsubseteq SeqBag(Mapped)
               /\ OutDrained => SeqBag(outputs) = SeqBag(Mapped))
    /\ (mode = "TransformChannels" /\ workers >= 1 /\ K >= 1) ~> OutDrained

\* Two equal items have gone through two stages with two workers and have
\* both been delivered.
C6_Witness ==
    /\ mode = "TransformChannels" /\ workers >= 2 /\ K >= 2
    /\ N >= 2 /\ items[1] = items[2]
    /\ OutDrained /\ Len(outputs) = N

\* Some envelope leaves the last stage with an error; for a call with a single
\* action: some item makes the action fail.
SomeExitFails == \E i \in 1..N : ExitFails(i)

\* C7: in TransformChannelsWithError with W >= 1 workers never more than one
\* error is sent on the error channel, and when some item makes the action
\* fail (some envelope leaves the last stage with an error) one error is
\* eventually sent, and exactly one has been sent when the collector is done.
C7_StreamingSingleError ==
    /\ [](mode = "TransformChannelsWithError" /\ workers >= 1
            => /\ Len(ErrSent) <= 1
               /\ (cpc = "done" /\ SomeExitFails) => Len(ErrSent) = 1)
    /\ (mode = "TransformChannelsWithError" /\ workers >= 1 /\ SomeExitFails)
          ~> (Len(ErrSent) = 1)

\* The collector has finished a run in which two items failed.
C7_Witness ==
    /\ mode = "TransformChannelsWithError" /\ workers >= 1 /\ cpc = "done"
    /\ \E i, j \in 1..N : i # j /\ ExitFails(i) /\ ExitFails(j)

\* The transformed values of the items whose envelope leaves the last stage
\* without an error, as a multiset.
Successes ==
    LET ok == {i \in 1..N : ~ExitFails(i)}
    IN  [v \in {Mapped[i] : i \in ok} |->
            Cardinality({i \in ok : Mapped[i] = v})]

BothClosed == outClosed /\ errClosed

\* C9: in TransformChannelsWithError, once an error has been sent on the error
\* channel no further value is sent on the output channel, and both channels
\* are closed afterwards.
C9_StreamingStopOnError ==
    /\ [][ErrSent # <<>> => OutSent' = OutSent]_vars
    /\ (ErrSent # <<>>) ~> BothClosed

\* An error has been sent while a value that did not fail was still on its
\* way to the collector, and both channels are closed.
C9_Witness ==
    /\ mode = "TransformChannelsWithError" /\ ErrSent # <<>> /\ BothClosed
    /\ \E i \in 1..N : ~ExitFails(i)
    /\ Len(OutSent) < Cardinality({i \in 1..N : ~ExitFails(i)})

\* No action of the call fails for any item.
NoneFails == ~SomeFails

\* C10: in TransformChannelsWithError with W >= 1 workers, if no action fails,
\* the input is closed and the consumer reads, both returned channels are
\* eventually closed and no error is ever sent on the error channel.
C10_StreamingCleanCompletion ==
    /\ [](mode = "TransformChannelsWithError" /\ NoneFails => ErrSent = <<>>)
    /\ (mode = "TransformChannelsWithError" /\ workers >= 1 /\ K >= 1
          /\ NoneFails) ~> (BothClosed /\ ErrSent = <<>>)

\* A run of two stages over two items in which nothing failed has closed both
\* channels after delivering every value.
C10_Witness ==
    /\ mode = "TransformChannelsWithError" /\ workers >= 1 /\ K >= 2
    /\ N >= 2 /\ NoneFails /\ BothClosed /\ Len(outputs) = N

\* C11 (as claimed): a transformer with a worker count of zero or less is
\* refused when it is constructed, so no call on such a transformer ever gets
\* past its entry and runs a pipeline.
C11_NoWorkersRejected == workers <= 0 => pc = "call"

\* C12 (as claimed): a call with zero actions does not fail and returns the
\* input items unchanged, in the original order.
C12_ZeroActionsIdentity ==
    (Bounded(mode) /\ K = 0 /\ workers >= 1)
        => /\ pc # "panicked"
           /\ ret.returned => ~ret.isNil /\ ret.seq = items

\* The envelopes of stage k that a worker has built or sent and that the
\* next reader has not yet received.
StageOut(k) == BagToSet(wHold[k]) \cup {chBuf[k][n] : n \in 1..Len(chBuf[k])}

\* The first stage whose action fails for the item x, or 0.
FirstFail(x) ==
    IF \E j \in 1..K : FailAt(x, j)
      THEN CHOOSE j \in 1..K : FailAt(x, j) /\ \A h \in 1..(j - 1) : ~FailAt(x, h)
      ELSE 0

\* C13 (as claimed): in TransformWithError, once the action of a stage has
\* failed for an item, the envelope of that item carries that error at the
\* output of that stage and of every later stage, the exit channel included.
C13_ErrorPersistence ==
    mode = "TransformWithError"
        => \A k \in 1..stage : \A e \in StageOut(k) :
              LET x == items[e.Index + 1]
                  j == FirstFail(x)
              IN  (j # 0 /\ j <= k)
                     => e.Err = NewErr(j, Chain(x, j - 1), e.Index)

\* The sequence q with v inserted so that it is at the 0-based position i.
InsertedAt(q, i, v) == SubSeq(q, 1, i) \o <<v>> \o SubSeq(q, i + 1, Len(q))

\* The sequence q without the element at the 0-based position i.
RemovedAt(q, i) == SubSeq(q, 1, i) \o SubSeq(q, i + 2, Len(q))

Occurs(q, v) == \E n \in 1..Len(q) : q[n] = v

\* The 0-based position of the first v in q, or -1.
FirstIndex(q, v) ==
    IF Occurs(q, v)
      THEN (CHOOSE n \in 1..Len(q) :
                q[n] = v /\ \A m \in 1..(n - 1) : q[m] # v) - 1
      ELSE 0 - 1

\* C14: InsertAt(v, i) with 0 <= i <= size returns no error, v is afterwards
\* at position i, the other elements keep their order and the size grows by
\* one; with i < 0 or i > size it returns an error and the contents and the
\* size are unchanged.
C14_InsertAt ==
    call.op = "InsertAt"
        => /\ ~call.panicked
           /\ IF 0 <= call.index /\ call.index <= Len(call.before)
                THEN /\ ~call.err
                     /\ Traversal = InsertedAt(call.before, call.index,
                                               call.value)
                     /\ Size = Len(call.before) + 1
                ELSE /\ call.err
                     /\ Traversal = call.before
                     /\ Size = Len(call.before)

\* A value has been inserted at the end of a list of two other values.
C14_Witness ==
    /\ call.op = "InsertAt" /\ ~call.err
    /\ Len(call.before) = 2 /\ call.index = 2
    /\ call.before[1] # call.before[2] /\ call.value = call.before[1]

\* C15: DeleteAt(i) with 0 <= i < size returns the value that was at position
\* i with no error, removes that node alone and keeps the order of the
\* others; with any other i (any i on an empty list) it returns an error and
\* leaves the list unchanged.
C15_DeleteAt ==
    call.op = "DeleteAt"
        => /\ ~call.panicked
           /\ IF 0 <= call.index /\ call.index < Len(call.before)
                THEN /\ ~call.err
                     /\ call.val = call.before[call.index + 1]
                     /\ Traversal = RemovedAt(call.before, call.index)
                     /\ Size = Len(call.before) - 1
                ELSE /\ call.err
                     /\ Traversal = call.before
                     /\ Size = Len(call.before)

\* DeleteAt was called with the index equal to the size of a list that is
\* not empty.
C15_Witness ==
    /\ call.op = "DeleteAt" /\ call.err
    /\ Len(call.before) >= 2 /\ call.index = Len(call.before)

\* C16: DeleteValue(v) on a list that holds v removes the first occurrence of
\* v alone and returns (true, nil); on a non-empty list without v it returns
\* (false, nil) and the list is unchanged; on an empty list it returns
\* (false, error).
C16_DeleteValue ==
    call.op = "DeleteValue"
        => /\ ~call.panicked
           /\ IF call.before = <<>>
                THEN ~call.found /\ call.err /\ Traversal = <<>>
                ELSE IF Occurs(call.before, call.value)
                THEN /\ call.found /\ ~call.err
                     /\ Traversal = RemovedAt(call.before,
                                       FirstIndex(call.before, call.value))
                     /\ Size = Len(call.before) - 1
                ELSE /\ ~call.found /\ ~call.err
                     /\ Traversal = call.before
                     /\ Size = Len(call.before)

\* A value that was at the second and the third place of a list has been
\* deleted.
C16_Witness ==
    /\ call.op = "DeleteValue" /\ call.found
    /\ Len(call.before) = 3 /\ call.before[1] # call.value
    /\ call.before[2] = call.value /\ call.before[3] = call.value

\* C17: Search(v) on a non-empty list returns the index of the first
\* occurrence of v and no error, or -1 and no error when v is absent; on an
\* empty list it returns -1 and an error; the list is as it was.
C17_Search ==
    call.op = "Search"
        => /\ ~call.panicked
           /\ call.pos = FirstIndex(call.before, call.value)
           /\ call.err = (call.before = <<>>)
           /\ Traversal = call.before
           /\ Size = Len(call.before)

\* A value that occurs twice, not at the head, has been searched for.
C17_Witness ==
    /\ call.op = "Search" /\ call.pos = 1
    /\ Len(call.before) = 3 /\ call.before[3] = call.value

\* C18: after any sequence of calls of the inserting and deleting methods,
\* failed ones included, Size() is the number of nodes linked from head, it is
\* not negative, and IsEmpty() is true exactly when head is nil.
C18_SizeInvariant ==
    /\ Size = Cardinality(Reachable)
    /\ Size = Len(Traversal)
    /\ Size >= 0
    /\ IsEmpty <=> head = Nil

\* The only element of a list has been removed by DeleteLast.
C18_Witness ==
    /\ call.op = "DeleteLast" /\ ~call.err /\ Len(call.before) = 1
    /\ IsEmpty

\* C19: the output channel of a stage is closed only after every worker of
\* the stage has returned: when it is closed no worker of the stage is in its
\* loop or about to send on it, and (with W >= 1) the stage's input is closed
\* and drained, so nothing of the stage is still unwritten.
C19_CompletionBarrier ==
    \A k \in 1..stage :
        chClosed[k] => /\ wDone[k] = workers
                       /\ wIdle[k] = 0
                       /\ wHold[k] = EmptyBag
                       /\ workers >= 1 => Drained(k - 1)

\* The first stage of two has been closed by its barrier while a worker of
\* the second stage still holds an envelope.
C19_Witness ==
    /\ Bounded(mode) /\ K = 2 /\ workers >= 2 /\ N >= 2
    /\ chClosed[1] /\ ~chClosed[2] /\ wHold[2] # EmptyBag

\* The collector has written position i of the result.
Collected(i) == Len(transformedItems) = N /\ transformedItems[i + 1] # 0

\* The number of envelopes buffered in the channels 0..c.
RECURSIVE Buffered(_)
Buffered(c) == IF c < 0 THEN 0 ELSE Len(chBuf[c]) + Buffered(c - 1)

\* The number of envelopes held by the workers of the stages 1..k.
RECURSIVE Held(_)
Held(k) == IF k < 1 THEN 0 ELSE BagCardinality(wHold[k]) + Held(k - 1)

\* The number of envelopes there are: those the feeder has still to send,
\* those in a channel, those with a worker and those collected.
Envelopes ==
    (N - fIdx) + Buffered(stage) + Held(stage)
        + Cardinality({i \in 0..(N - 1) : Collected(i)})

\* The envelope with the index i is at some place of the pipeline.
Somewhere(i) ==
    \/ fIdx <= i
    \/ Collected(i)
    \/ \E c \in 0..stage : \E n \in 1..Len(chBuf[c]) : chBuf[c][n].Index = i
    \/ \E k \in 1..stage : \E e \in BagToSet(wHold[k]) : e.Index = i

\* The slice call has stopped at an envelope with an error.
FailFastStop == ret.returned /\ ret.isNil

\* C20: in a slice call that is not stopped by an error, every envelope is at
\* any time at exactly one place of the pipeline (there are as many envelopes
\* as items and every index is among them), an envelope at the output
\* of stage k holds what the first k actions make of its item, and when the
\* call returns every envelope has been collected: no stage drops or
\* duplicates an envelope.
C20_ExactlyOncePerStage ==
    (Bounded(mode) /\ Alive /\ ~FailFastStop)
        => /\ Envelopes = N
           /\ \A i \in 0..(N - 1) : Somewhere(i)
           /\ \A k \in 1..stage : \A e \in StageOut(k) :
                 e.Item = Chain(items[e.Index + 1], k)
           /\ (ret.returned /\ workers >= 1)
                 => \A i \in 0..(N - 1) : Collected(i)

\* Two envelopes are in flight at two different stages.
C20_Witness ==
    /\ Bounded(mode) /\ K = 2 /\ workers >= 2
    /\ wHold[2] # EmptyBag /\ chBuf[1] # <<>>

\* The feeder and every worker of every stage have returned and every channel
\* of the call is closed.
AllExited ==
    /\ fpc = "done"
    /\ \A k \in 1..K : wDone[k] = workers /\ wIdle[k] = 0 /\ wHold[k] = EmptyBag
    /\ \A c \in 0..K : chClosed[c]

\* C21: a call of Transform with W >= 1 workers and at least one action, for
\* any number of items, eventually returns with the feeder and every worker
\* returned and every channel closed, whatever the interleaving and whatever
\* capacities the stage channels got.
C21_BoundedTermination ==
    (mode = "Transform" /\ workers >= 1 /\ K >= 1)
        ~> (ret.returned /\ AllExited)

\* Transform has returned from a call in which the channel between the two
\* stages was unbuffered, and everything has exited.
C21_Witness ==
    /\ mode = "Transform" /\ workers >= 2 /\ K = 2 /\ N = 2
    /\ chCap[1] = 0 /\ ret.returned /\ AllExited

\* A worker of stage k is blocked in its send: it holds an envelope, the
\* output channel of the stage has no room, and the reader of that channel
\* is gone (the caller has returned) or is itself a stage that is stuck.
RECURSIVE Stuck(_)
Stuck(k) ==
    /\ wHold[k] # EmptyBag
    /\ Len(chBuf[k]) >= chCap[k]
    /\ IF k = K THEN ret.returned
       ELSE wIdle[k + 1] = 0 /\ wDone[k + 1] < workers /\ Stuck(k + 1)

\* C22 (as claimed): after TransformWithError has returned early with an
\* error, no worker of any stage is blocked for ever in a send: the workers
\* run to completion without a reader of the exit channel.
C22_RunToCompletion ==
    (mode = "TransformWithError" /\ workers >= 1 /\ FailFastStop)
        => \A k \in 1..K : ~Stuck(k)

\* C23 (as claimed): in a slice call the entry channel and the output channel
\* of every stage are made with the capacity N, the number of input items.
C23_NoBackpressure ==
    (Bounded(mode) /\ workers >= 1)
        => \A c \in 0..K : chCap[c] >= 0 => chCap[c] = N

\* The envelopes buffered in channel c.
InQueue(c) == {chBuf[c][n] : n \in 1..Len(chBuf[c])}

\* The indexes of the live envelopes: queued, with a worker, or collected.
LiveIndexes ==
    UNION {{e.Index : e \in InQueue(c)} : c \in 0..stage}
        \cup UNION {{e.Index : e \in BagToSet(wHold[k])} : k \in 1..stage}
        \cup {i \in 0..(N - 1) : Collected(i)}

\* C24: in a slice call every envelope in a channel or held by a worker has
\* an index in 0..N-1 that the feeder has stamped, it is the envelope of the
\* item at that position (it holds what the stages so far make of that item),
\* and no two live envelopes (queued, with a worker or collected) have the
\* same index, at every moment of the call.
C24_IndexStamp ==
    [](Bounded(mode)
            => /\ \A e \in InQueue(0) :
                     /\ e.Index \in 0..(fIdx - 1) /\ fIdx <= N
                     /\ e.Item = items[e.Index + 1]
               /\ \A k \in 1..stage : \A e \in StageOut(k) :
                     /\ e.Index \in 0..(fIdx - 1)
                     /\ e.Item = Chain(items[e.Index + 1], k)
               /\ Cardinality(LiveIndexes)
                     = Buffered(stage) + Held(stage)
                         + Cardinality({i \in 0..(N - 1) : Collected(i)}))

\* Two workers of the second stage hold the envelopes of two different items
\* at the same time.
C24_Witness ==
    /\ Bounded(mode) /\ K = 2 /\ N = 2 /\ items[1] # items[2]
    /\ BagCardinality(wHold[2]) = 2

\* C25: the feeder of a slice call writes the envelopes to the entry channel
\* one at a time in the order of the indexes 0, 1, ..., N-1 (every write is
\* that of the next index, so the queued envelopes are consecutive and
\* end with the last one written), and the entry channel is closed only when
\* all N have been written, by the feeder as it returns.
C25_FeederOrdering ==
    /\ [](Bounded(mode)
            => /\ \A n \in 1..Len(chBuf[0]) :
                     chBuf[0][n] = Stamp(fIdx - Len(chBuf[0]) + n - 1,
                                         items[fIdx - Len(chBuf[0]) + n])
               /\ chClosed[0] => fIdx = N
               /\ chClosed[0] <=> fpc = "done")
    /\ [][(Bounded(mode) /\ fIdx' # fIdx)
            => /\ fIdx' = fIdx + 1
               /\ ~chClosed[0]
               /\ chBuf'[0] = Append(chBuf[0], Stamp(fIdx, items[fIdx + 1]))]_vars

\* The entry channel is closed with both envelopes still queued in it.
C25_Witness ==
    /\ Bounded(mode) /\ N = 2 /\ items[1] # items[2]
    /\ chClosed[0] /\ Len(chBuf[0]) = 2

\* The error the last action makes for the item at position i, and the
\* positions whose envelope leaves the last stage with an error.
ExitErr(i) == NewErr(K, Chain(items[i], K - 1), i - 1)

Failing == {i \in 1..N : ExitFails(i)}

Lowest == CHOOSE i \in Failing : \A j \in Failing : i <= j

\* C26 as stated: when TransformWithError with W >= 1 workers returns an
\* error, it is the error of the failing item with the lowest original index,
\* in every interleaving.
C26_LowestIndexError ==
    (mode = "TransformWithError" /\ workers >= 1 /\ ret.returned /\ ret.isNil)
        => Failing # {} /\ ret.err = ExitErr(Lowest)

\* C26: when TransformWithError with W >= 1 workers returns an error, it is
\* the error of one of the items whose envelope leaves the last stage with an
\* error (the first such envelope the collector receives); with W = 1 it is
\* that of the lowest original index among them.
C26_FirstReceivedError ==
    (mode = "TransformWithError" /\ workers >= 1 /\ ret.returned /\ ret.isNil)
        => /\ \E i \in Failing : ret.err = ExitErr(i)
           /\ workers = 1 => ret.err = ExitErr(Lowest)

\* Two items fail and the error returned is that of the later one.
C26_Witness ==
    /\ mode = "TransformWithError" /\ workers >= 2 /\ ret.returned /\ ret.isNil
    /\ Cardinality(Failing) = 2
    /\ \E i \in Failing : i # Lowest /\ ret.err = ExitErr(i)

\* Nothing is left inside the pipeline: no item waits in the input channel, in
\* a stage channel, in the hands of the feeder, of a worker or of the
\* collector.
PipelineEmpty ==
    /\ inBuf = <<>> /\ fHold = <<>> /\ cHold = <<>>
    /\ \A c \in 0..K : chBuf[c] = <<>>
    /\ \A k \in 1..K : wHold[k] = EmptyBag

\* C28: the output channel of TransformChannels (W >= 1 workers) is closed
\* only after the input channel has been closed and every item read from it
\* has passed every stage and been sent on the output channel; as long as the
\* input channel is not closed, the output channel is not closed.
C28_StreamingCloseCondition ==
    (mode = "TransformChannels" /\ workers >= 1)
        => /\ outClosed => /\ inClosed
                           /\ PipelineEmpty
                           /\ Len(OutSent) = pIdx
                           /\ SeqBag(OutSent) = SeqBag(Mapped)
           /\ ~inClosed => ~outClosed /\ cpc # "done"

\* The output channel is closed after two items went through two stages.
C28_Witness ==
    /\ mode = "TransformChannels" /\ workers >= 1 /\ K = 2 /\ N = 2
    /\ outClosed /\ inClosed /\ Len(OutSent) = 2

\* C29: in TransformChannelsWithError (W >= 1 workers) every value sent on the
\* output channel is the item of an envelope the collector holds with no
\* error, and it is sent while no error has been sent on the error channel;
\* the values sent are at most one per input item whose envelope leaves the
\* last stage without an error, so the value of an errored envelope is never
\* forwarded.
C29_ForwardsBeforeError ==
    /\ [](mode = "TransformChannelsWithError" /\ workers >= 1
            => /\ Len(OutSent) <= Cardinality({i \in 1..N : ~ExitFails(i)})
               /\ SeqBag(OutSent) \sqsubseteq Successes
               /\ cpc = "send" => cHold[1].Err = NoErr /\ ErrSent = <<>>
               /\ cpc = "sendErr" => cHold[1].Err # NoErr)
    /\ [][(mode = "TransformChannelsWithError" /\ workers >= 1
             /\ OutSent' # OutSent)
            => /\ ErrSent = <<>> /\ ErrSent' = <<>>
               /\ cpc = "send" /\ cHold[1].Err = NoErr
               /\ OutSent' = Append(OutSent, cHold[1].Item)]_vars

\* A value has been sent on the output channel and after it an error on the
\* error channel, in a call where one item fails and one does not.
C29_Witness ==
    /\ mode = "TransformChannelsWithError" /\ workers >= 1 /\ N = 2
    /\ Len(OutSent) = 1 /\ Len(ErrSent) = 1
    /\ \E i, j \in 1..N : ExitFails(i) /\ ~ExitFails(j)

\* C30: every channel of a call (the entry channel, the output channel of
\* every stage, the returned output channel and the returned error channel) is
\* closed at most once, and only by its writer side: the entry channel by the
\* feeder, a stage channel by the barrier goroutine of that stage, the
\* returned channels by the streaming collector.
C30_SingleClose ==
    /\ closes.ch[0] = IF chClosed[0] THEN <<"feeder">> ELSE <<>>
    /\ \A k \in 1..MaxStages :
          closes.ch[k] = IF chClosed[k] THEN <<"barrier">> ELSE <<>>
    /\ closes.out = IF outClosed THEN <<"collector">> ELSE <<>>
    /\ closes.err = IF errClosed THEN <<"collector">> ELSE <<>>
    /\ \A k \in 1..MaxStages : chClosed[k] => k <= stage

\* Every channel of a streaming call with two stages has been closed.
C30_Witness ==
    /\ mode = "TransformChannelsWithError" /\ workers >= 1 /\ K = 2
    /\ \A c \in 0..K : Len(closes.ch[c]) = 1
    /\ Len(closes.out) = 1 /\ Len(closes.err) = 1

\* The consumer that receives from the error channel first has got nothing
\* yet: it has taken no value from the output channel, and the error channel
\* is open and empty, so it is blocked in its receive.
ErrorFirstWaiting ==
    /\ pc = "returned"
    /\ outputs = <<>> /\ outputErrors = <<>>
    /\ errBuf = <<>> /\ ~errClosed

\* The collector is blocked in transformedItems <- item: the output channel
\* has no room, and only a receive of the consumer can make some.
CollectorBlocked == cpc = "send" /\ Len(outBuf) >= outCap

\* C31: in TransformChannelsWithError (W >= 1 workers) over an input whose
\* items were all in the input channel when the method was called and which
\* is closed, a consumer
\* that first waits on the error channel and only then drains the output
\* channel always completes: while it waits, the collector is never blocked
\* in a send on the output channel.
C31_ErrorFirstNoDeadlock ==
    (mode = "TransformChannelsWithError" /\ workers >= 1
       /\ inCap = N /\ chCap[0] = N /\ inClosed /\ ErrorFirstWaiting)
        => ~CollectorBlocked

\* C32: with a transformer of 0 workers and at least one action, Transform
\* invokes no action (no worker ever holds an envelope and nothing is ever
\* written to a stage channel), it returns, and what it returns is a sequence
\* of N zero values; in the end all N envelopes lie unprocessed in the entry
\* channel, which is closed.
C32_ZeroWorkersAtCall ==
    /\ [](mode = "Transform" /\ workers = 0 /\ K >= 1
            => /\ \A k \in 1..MaxStages :
                     wIdle[k] = 0 /\ wHold[k] = EmptyBag /\ chBuf[k] = <<>>
               /\ pc # "panicked"
               /\ ret.returned
                     => ~ret.isNil /\ ret.err = NoErr /\ ret.seq = Zeros(N))
    /\ (mode = "Transform" /\ workers = 0 /\ K >= 1)
          ~> (ret.returned /\ Len(chBuf[0]) = N /\ chClosed[0])

\* Transform with no worker has returned two zero values while the two
\* envelopes are still in the entry channel.
C32_Witness ==
    /\ mode = "Transform" /\ workers = 0 /\ K = 2 /\ N = 2
    /\ ret.returned /\ ret.seq = Zeros(2) /\ Len(chBuf[0]) = 2

\* What the stages after stage j make of the value x that stage j has made.
RECURSIVE Through(_, _)
Through(x, j) == IF j >= K THEN x ELSE Through(Act(actions[j + 1], x).out, j + 1)

\* The final values of the items of a sequence of envelopes that are at the
\* output of stage j, and of a sequence of input items.
FinalOf(q, j) == [n \in 1..Len(q) |-> Through(q[n].Item, j)]

FinalOfItems(q) == [n \in 1..Len(q) |-> Through(q[n], 0)]

\* The envelope the single worker of stage k holds, if any.
HeldSeq(k) == IF wHold[k] = EmptyBag THEN <<>>
              ELSE <<CHOOSE e \in BagToSet(wHold[k]) : TRUE>>

\* The final values of everything that is in the stages 1..k, in the entry
\* channel, with the feeder, in the input channel or not yet produced, from
\* the oldest to the newest when every place is a queue.
RECURSIVE Upstream(_)
Upstream(k) ==
    IF k = 0
      THEN FinalOf(chBuf[0], 0) \o FinalOfItems(fHold) \o FinalOfItems(inBuf)
               \o FinalOfItems(SubSeq(items, pIdx + 1, N))
      ELSE FinalOf(chBuf[k], k) \o FinalOf(HeldSeq(k), k) \o Upstream(k - 1)

\* The values delivered and to be delivered, in the order of the places.
Flow == OutSent \o FinalOf(cHold, K) \o Upstream(K)

\* C33: with W = 1 every stage preserves the order of arrival: in
\* TransformChannels the values sent on the output channel, followed by what
\* the values on their way will become, in the order of their places, are
\* always the transformed inputs in the order the inputs were written, so the
\* outputs are delivered in input order; and the error TransformWithError
\* returns is that of the lowest index whose envelope leaves the last stage
\* with an error.
C33_SingleWorkerFIFO ==
    (workers = 1 /\ K >= 1)
        => /\ mode = "TransformChannels"
                => /\ \A k \in 1..K : BagCardinality(wHold[k]) <= 1
                   /\ Flow = Mapped
                   /\ OutDrained => outputs = Mapped
           /\ (mode = "TransformWithError" /\ ret.returned /\ ret.isNil)
                => \A i \in 1..N :
                      ret.err = ExitErr(i)
                          <=> (ExitFails(i) /\ \A j \in 1..(i - 1) : ~ExitFails(j))

\* One worker a stage has taken two different items through two stages and
\* both have been delivered, in the order of the input.
C33_Witness ==
    /\ mode = "TransformChannels" /\ workers = 1 /\ K = 2 /\ N = 2
    /\ Mapped[1] # Mapped[2]
    /\ OutDrained /\ outputs = Mapped

============================================================================
